---- MODULE Spec2Model ----
(***************************************************************************)
(* sockparty: a party (registry of websocket users) and its per-user       *)
(* actors.  The model follows the channel-notification revision of the     *)
(* party (src/unnamed/part_013, lines 1-224) and the user of src/user.go   *)
(* (lines 1-170).                                                          *)
(*                                                                         *)
(* Goroutines of the program, each with a program counter:                 *)
(*   - one ServeHTTP invocation per request (hpc),                         *)
(*   - per user the lifecycle loop (lpc: user.listen/handleLifecycle) and  *)
(*     the inbound pump (ppc: the goroutine of listen/handleIncoming),     *)
(*   - callers of Broadcast, Message and End (caller).                     *)
(* The peer of each connection and the UIDGenerator are the environment.   *)
(***************************************************************************)
EXTENDS Integers, Sequences, FiniteSets, TLC

\* ------------------------------------------------------------------ bounds
NumConns == 2
NumIDs == 2
NumCallers == 2
MaxFrames == 2       \* frames a peer sends
Burst == 1           \* burst of the configured rate.Limiter
NumChans == 2        \* channels the application registers with RegisterIncoming

Conns == 1..NumConns
IDs == 1..NumIDs
Callers == 1..NumCallers

NoUser == 0
NoID == 0
NoCaller == 0
NoChan == 0

OpKinds == {"Broadcast", "Message", "End"}

VARIABLES
    opts,            \* Options: PingFrequency, PingTimeout, RateLimiter, and in the
                     \* revision with callbacks UserJoinHandler, UserLeaveHandler
    limiter,         \* the rate.Limiter that Options.RateLimiter points to
    channels,        \* Party.userJoinChannel, userLeaveChannel: registered or nil;
                     \* Party.incoming: the channel registered (NoChan: nil)
    app,             \* the application behind the registered channels
    connectedUsers,  \* Party.connectedUsers: id -> user (NoUser: no entry)
    mut,             \* Party.mut (sync.RWMutex): the writer and the readers holding it
    hpc,             \* ServeHTTP: position of the handler of each request
    uid,             \* usr.ID of the user made by each request
    incoming,        \* usr.incoming of that user (NoChan: nil)
    herr,            \* the error ServeHTTP received on its closed channel
    lpc,             \* user.listen / handleLifecycle: position
    ppc,             \* the goroutine of listen running handleIncoming: position
    cancelled,       \* the context listen derives with context.WithCancel
    retL,            \* handleLifecycle's return value (kept after it is reported)
    retP,            \* handleIncoming's return value
    msg,             \* handleIncoming: the message read and not yet handed on
    conn,            \* the websocket connection of each request and its peer
    caller,          \* the goroutines calling Broadcast, Message and End
    hist,            \* history of the run (never read by the program)
    lsn              \* the earlier revisions in which Party.Listen serves channels:
                     \* Listen, each request's processUser, each User's loops

partyVars == <<lsn, opts, limiter, channels, app, connectedUsers, mut>>
handlerVars == <<hpc, uid, incoming, herr>>
userVars == <<lpc, ppc, cancelled, retL, retP, msg>>
vars == <<opts, limiter, channels, app, connectedUsers, mut, hpc, uid, incoming, herr, lpc, ppc,
          cancelled, retL, retP, msg, conn, caller, hist, lsn>>

\* ------------------------------------------------------------------ helpers

\* The users that are in the map.
Members == {id \in IDs : connectedUsers[id] # NoUser}

\* Party.GetConnectedUserCount: len(party.connectedUsers) under the read lock.
GetConnectedUserCount == Cardinality(Members)

\* sync.RWMutex: Lock() can proceed, RLock() can proceed.
CanLock == mut.writer = NoCaller /\ mut.readers = {}
CanRLock == mut.writer = NoCaller

\* The goroutine of ServeHTTP for connection c, as a holder of the mutex
\* (callers are the positive holders).
Handler(c) == 0 - c

\* party.mut.Lock() by holder h, once CanLock.
Lock(m, h) == [m EXCEPT !.writer = h]

\* An unlock that is put off until after the notification.
Unlock_Late(m) == m

\* party.mut.Unlock().
Unlock(m) == [m EXCEPT !.writer = NoCaller]

\* An addUser that notifies nobody.
JoinSink_Skipped == FALSE

\* Whether a join (leave) is notified: a channel is registered or, in the
\* revision with callbacks, a handler is set.
JoinSink == channels.userJoinChannel \/ opts.UserJoinHandler

LeaveSink == channels.userLeaveChannel \/ opts.UserLeaveHandler

\* A lookup that falls back on some other member when id has no entry.
Lookup_Any(id) ==
    IF connectedUsers[id] # NoUser \/ Members = {} THEN connectedUsers[id]
    ELSE connectedUsers[CHOOSE j \in Members : TRUE]

\* party.connectedUsers[userID]: the user registered under id, if any.
Lookup(id) == connectedUsers[id]

\* An insertion that never reaches the map.
Insert_Noop(m, id, c) == m

\* party.connectedUsers[usr.ID] = usr.
Insert(m, id, c) == [m EXCEPT ![id] = c]

\* A delete that leaves the entry in the map.
Delete_Noop(m, id) == m

\* delete(party.connectedUsers, id).
Delete(m, id) == [m EXCEPT ![id] = NoUser]

\* A close that never reaches the session.
ConnClose_Leak(cn, c, status) == cn

\* websocket.Conn.Close(status, reason): one more close of the session; the
\* status of the first close is the one the session ends with.
ConnClose(cn, c, status) ==
    [cn EXCEPT ![c].closes = @ + 1,
               ![c].status = IF @ = "none" THEN status ELSE @]

\* A close that does not reach the session.
CloseConn_Noop(cn, c) == cn

\* user.close: connection.Close(websocket.StatusNormalClosure, reason).
CloseConn(cn, c) == ConnClose(cn, c, "StatusNormalClosure")

\* An error handler that hears nothing.
ErrorHandler_Silent(h, c, err) == h

\* party.ErrorHandler(err), for the request of connection c.
ErrorHandler(h, c, err) == [h EXCEPT !.errors = @ \cup {<<c, err>>}]

\* How a write of a frame to c's connection can end now.  A session the
\* server closed refuses it; one the peer has left may still take the bytes or
\* may already fail; a peer that has stopped reading leaves the write waiting.
WriteOutcomes(c) ==
    IF conn[c].closes > 0 THEN {FALSE}
    ELSE IF conn[c].peer = "closed" THEN {TRUE, FALSE}
    ELSE IF conn[c].peer = "stalled" THEN {}
    ELSE {TRUE}

\* An id the UIDGenerator may issue: never one that a live member holds or
\* that a join in progress is about to register.
IdFree(id) ==
    /\ connectedUsers[id] = NoUser
    /\ \A c \in Conns : ~(hpc[c] = "add" /\ uid[c] = id)

\* A caller's locals: the call (op, target), the range still to visit (todo),
\* the user being written to (cur), the value about to be returned (result,
\* or exists, ids, count for the accessors);
\* and for the record the map as the call found it and how often the call
\* has acted on each user.
IdleCaller == [pc |-> "idle", op |-> "none", target |-> NoID, todo |-> {},
               cur |-> NoUser, result |-> "none",
               exists |-> FALSE, ids |-> <<>>, count |-> 0,
               map |-> [id \in IDs |-> NoUser],
               done |-> [c \in Conns |-> 0]]

\* No channel registered: the party as New returns it.
NoChannels == [userJoinChannel |-> FALSE, userLeaveChannel |-> FALSE, incoming |-> NoChan]

\* No shared limiter: handleIncoming makes its own rate.Inf limiter.
NoLimiter == [tokens |-> 0, granted |-> [c \in Conns |-> 0]]

\* The revisions whose Party has a Listen loop, before Listen is running:
\* rev names the channel on which Listen takes a message for one user
\* ("SendMessage" in party.go, "MessageUser" in options.go l.50-221);
\* pc is Listen's position, target and todo its locals, users its
\* connectedUsers map; proc, inc and out are, per request, the positions of
\* ServeHTTP/processUser, User.listenIncoming and User.listenOutgoing; ws is
\* the request's websocket; sender is the application goroutines that send
\* on the party's message channels.
NoListen == [rev |-> "none", pc |-> "select", target |-> NoUser, todo |-> {},
             users |-> {},
             proc |-> [c \in Conns |-> "idle"],
             inc |-> [c \in Conns |-> "off"],
             out |-> [c \in Conns |-> "off"],
             ws |-> [c \in Conns |-> "none"],
             sender |-> [k \in Callers |-> "idle"]]

\* ------------------------------------------------------------------ Init

InitCommon ==
    /\ lsn = NoListen
    /\ connectedUsers = [id \in IDs |-> NoUser]
    /\ mut = [writer |-> NoCaller, readers |-> {}]
    /\ hpc = [c \in Conns |-> "idle"]
    /\ uid = [c \in Conns |-> NoID]
    /\ incoming = [c \in Conns |-> NoChan]
    /\ herr = [c \in Conns |-> "none"]
    /\ lpc = [c \in Conns |-> "off"]
    /\ ppc = [c \in Conns |-> "off"]
    /\ cancelled = [c \in Conns |-> FALSE]
    /\ retL = [c \in Conns |-> "none"]
    /\ retP = [c \in Conns |-> "none"]
    /\ msg = [c \in Conns |-> <<>>]
    /\ conn = [c \in Conns |-> [peer |-> "none", closes |-> 0, status |-> "none",
                                 wire |-> <<>>,
                                 sent |-> 0, unread |-> <<>>]]
    /\ caller = [k \in Callers |-> IdleCaller]
    /\ app = [receiving |-> TRUE, draining |-> TRUE, inbox |-> <<>>]
    /\ hist = [joined |-> 0, left |-> 0, ended |-> 0, errors |-> {},
               removedBy |-> [c \in Conns |-> "none"],
               submitted |-> [c \in Conns |-> <<>>],
               leaving |-> [c \in Conns |-> NoUser],
               joinNotes |-> {}, leaveNotes |-> {},
               sawJoin |-> [c \in Conns |-> "none"],
               sawLeave |-> [c \in Conns |-> "none"],
               read |-> [c \in Conns |-> <<>>],
               removeErr |-> [c \in Conns |-> "none"],
               via |-> <<>>,
               waitErr |-> [c \in Conns |-> "none"],
               late |-> {}, afterLeave |-> {}]

\* The options of the tests: no keepalive, no rate limiter.
Init ==
    /\ opts = [PingFrequency |-> 0, PingTimeout |-> 0, RateLimiter |-> "nil",
               UserJoinHandler |-> FALSE, UserLeaveHandler |-> FALSE]
    /\ limiter = NoLimiter
    /\ channels = NoChannels
    /\ InitCommon

\* ------------------------------------------------------------------ ServeHTTP

\* Connections are numbered in the order in which their requests are served,
\* ids in the order in which the generator first issues them.
NextConn(c) == IF c = 1 THEN TRUE ELSE hpc[c - 1] # "idle"
NextID(id) == \A j \in 1..(id - 1) : \E c \in Conns : uid[c] = j

\* ServeHTTP up to newUser: websocket.Accept fails and is reported; or
\* party.UIDGenerator() fails, is reported and the fresh session is closed;
\* or the user is made with the id the generator issued and the channel that
\* party.incoming holds at that moment.
ServeHTTP_Accept(c) ==
    /\ hpc[c] = "idle"
    /\ NextConn(c)
    /\ \/ /\ hpc' = [hpc EXCEPT ![c] = "done"]
          /\ hist' = ErrorHandler(hist, c, "upgrade")
          /\ UNCHANGED <<conn, uid, incoming>>
       \/ /\ hpc' = [hpc EXCEPT ![c] = "done"]
          /\ hist' = ErrorHandler(hist, c, "uid")
          /\ conn' = ConnClose([conn EXCEPT ![c].peer = "open"], c,
                               "StatusInternalError")
          /\ UNCHANGED <<uid, incoming>>
       \/ \E id \in IDs :
            /\ IdFree(id)
            /\ NextID(id)
            /\ uid' = [uid EXCEPT ![c] = id]
            /\ incoming' = [incoming EXCEPT ![c] = channels.incoming]
            /\ hpc' = [hpc EXCEPT ![c] = "add"]
            /\ conn' = [conn EXCEPT ![c].peer = "open"]
            /\ hist' = hist
    /\ UNCHANGED <<partyVars, herr, userVars, caller>>

\* `go usr.listen(req.Context(), closed)`: the two loops of the user start and
\* ServeHTTP goes on to its receive.
Listen(c) ==
    /\ hpc' = [hpc EXCEPT ![c] = "recv"]
    /\ lpc' = [lpc EXCEPT ![c] = "select"]
    /\ ppc' = [ppc EXCEPT ![c] = "check"]

\* party.addUser(usr): Lock, the map insertion, Unlock.  With a join sink the
\* notification comes next; without one addUser returns and ServeHTTP
\* starts the user's loops.
ServeHTTP_AddUser(c) ==
    /\ hpc[c] = "add"
    /\ CanLock
    /\ mut' = Unlock(Lock(mut, Handler(c)))
    /\ connectedUsers' = Insert(connectedUsers, uid[c], c)
    /\ hist' = [hist EXCEPT !.joined = @ + 1]
    /\ IF JoinSink
       THEN /\ hpc' = [hpc EXCEPT ![c] = "joinSend"]
            /\ UNCHANGED <<lpc, ppc>>
       ELSE Listen(c)
    /\ UNCHANGED <<lsn, opts, limiter, channels, app, uid, incoming, herr, cancelled, msg, retL, retP, conn, caller>>

\* addUser, `party.userJoinChannel <- usr.ID`: the application receives the
\* id; addUser returns and ServeHTTP starts the user's loops.
ServeHTTP_JoinSent(c) ==
    /\ hpc[c] = "joinSend"
    /\ channels.userJoinChannel
    /\ app.receiving
    /\ hist' = [hist EXCEPT !.joinNotes = @ \cup {c}]
    /\ Listen(c)
    /\ UNCHANGED <<partyVars, uid, incoming, herr, cancelled, retL, retP, msg, conn, caller>>

\* addUser in the revision with callbacks, `party.opts.UserJoinHandler(usr.ID)`:
\* the handler runs on ServeHTTP's goroutine and calls party.UserExists(id)
\* (RLock, lookup, RUnlock) before it returns.
ServeHTTP_JoinHandler(c) ==
    /\ hpc[c] = "joinSend"
    /\ opts.UserJoinHandler
    /\ mut.writer # Handler(c)
    /\ CanRLock
    /\ hist' = [hist EXCEPT !.joinNotes = @ \cup {c},
                            !.sawJoin[c] = IF Lookup(uid[c]) = c THEN "exists" ELSE "absent"]
    /\ Listen(c)
    /\ UNCHANGED <<partyVars, uid, incoming, herr, cancelled, retL, retP, msg, conn, caller>>

\* ServeHTTP reaches `case err := <-closed` and waits there as a receiver.
ServeHTTP_Park(c) ==
    /\ hpc[c] = "recv"
    /\ hpc' = [hpc EXCEPT ![c] = "parked"]
    /\ UNCHANGED <<partyVars, uid, incoming, herr, userVars, conn, caller, hist>>

\* A lookup that finds every id.
Present_Always(m, id) == TRUE

\* `_, ok := party.connectedUsers[id]`.
Present(m, id) == m[id] # NoUser

\* party.removeUser(usr.ID) after the closed channel delivered: the entry is
\* deleted and nil returned, or there is none and ErrNoSuchUser is returned
\* (ServeHTTP ignores the value).
ServeHTTP_RemoveUser(c) ==
    /\ hpc[c] = "got"
    /\ CanLock
    /\ mut' = Unlock(Lock(mut, Handler(c)))
    /\ IF Present(connectedUsers, uid[c])
       THEN /\ connectedUsers' = Delete(connectedUsers, uid[c])
            /\ hist' = [hist EXCEPT !.left = @ + 1,
                                    !.removeErr[c] = "nil",
                                    !.leaving[c] = connectedUsers[uid[c]],
                                    !.removedBy[connectedUsers[uid[c]]] =
                                        IF connectedUsers[uid[c]] = c
                                        THEN "self" ELSE "other"]
            /\ hpc' = [hpc EXCEPT ![c] = IF LeaveSink THEN "leaveSend" ELSE "done"]
       ELSE /\ hpc' = [hpc EXCEPT ![c] = "done"]
            /\ hist' = [hist EXCEPT !.removeErr[c] = "ErrNoSuchUser"]
            /\ UNCHANGED connectedUsers
    /\ UNCHANGED <<lsn, opts, limiter, channels, app, uid, incoming, herr, userVars, conn, caller>>

\* removeUser, `party.userLeaveChannel <- id`: the application receives the
\* id; removeUser and ServeHTTP return.
ServeHTTP_LeaveSent(c) ==
    /\ hpc[c] = "leaveSend"
    /\ channels.userLeaveChannel
    /\ app.receiving
    /\ hist' = [hist EXCEPT !.leaveNotes = @ \cup {hist.leaving[c]}]
    /\ hpc' = [hpc EXCEPT ![c] = "done"]
    /\ UNCHANGED <<partyVars, uid, incoming, herr, userVars, conn, caller>>

\* removeUser in the revision with callbacks,
\* `party.opts.UserLeaveHandler(id)`: the handler calls party.UserExists(id)
\* before it returns.
ServeHTTP_LeaveHandler(c) ==
    /\ hpc[c] = "leaveSend"
    /\ opts.UserLeaveHandler
    /\ mut.writer # Handler(c)
    /\ CanRLock
    /\ hist' = [hist EXCEPT !.leaveNotes = @ \cup {hist.leaving[c]},
                            !.sawLeave[c] = IF Lookup(uid[c]) = hist.leaving[c]
                                            THEN "exists" ELSE "absent"]
    /\ hpc' = [hpc EXCEPT ![c] = "done"]
    /\ UNCHANGED <<partyVars, uid, incoming, herr, userVars, conn, caller>>

\* The application stops receiving from the incoming channel.
AppStopsDraining ==
    /\ app.draining
    /\ app' = [app EXCEPT !.draining = FALSE]
    /\ UNCHANGED <<lsn, opts, limiter, channels, connectedUsers, mut, handlerVars, userVars,
                   conn, caller, hist>>

\* Party.RegisterIncoming(ch): `party.incoming = ch`, with no lock; the
\* users already made keep the channel newUser gave them.  The application
\* registers fresh channels, one after the other.
RegisterIncoming(ch) ==
    /\ ch = channels.incoming + 1
    /\ channels' = [channels EXCEPT !.incoming = ch]
    /\ UNCHANGED <<lsn, opts, limiter, app, connectedUsers, mut, handlerVars, userVars, conn,
                   caller, hist>>

\* The application stops receiving from the channels it registered.
AppStops ==
    /\ app.receiving
    /\ app' = [app EXCEPT !.receiving = FALSE]
    /\ UNCHANGED <<lsn, opts, limiter, channels, connectedUsers, mut, handlerVars, userVars,
                   conn, caller, hist>>

\* ------------------------------------------------------------------ user

\* The non-blocking send `select { case closed <- err: default: }` of listen,
\* followed by the deferred cancel(): the value is handed over only when
\* ServeHTTP is waiting in its receive, otherwise it is dropped.
Report(c, err) ==
    /\ IF hpc[c] = "parked"
       THEN /\ hpc' = [hpc EXCEPT ![c] = "got"]
            /\ herr' = [herr EXCEPT ![c] = err]
            /\ hist' = ErrorHandler(hist, c, err)
       ELSE UNCHANGED <<hpc, herr, hist>>
    /\ cancelled' = [cancelled EXCEPT ![c] = TRUE]

\* handleLifecycle, `case <-ctx.Done()`: close the session, return ctx.Err().
Lifecycle_CtxDone(c) ==
    /\ lpc[c] = "select"
    /\ cancelled[c]
    /\ conn' = CloseConn(conn, c)
    /\ retL' = [retL EXCEPT ![c] = "ctx"]
    /\ lpc' = [lpc EXCEPT ![c] = "report"]
    /\ UNCHANGED <<partyVars, handlerVars, ppc, cancelled, msg, retP, caller, hist>>

\* listen: hand handleLifecycle's result to closed, then the deferred cancel.
Lifecycle_Report(c) ==
    /\ lpc[c] = "report"
    /\ Report(c, retL[c])
    /\ lpc' = [lpc EXCEPT ![c] = "done"]
    /\ UNCHANGED <<partyVars, uid, incoming, ppc, retL, retP, msg, conn, caller>>

\* A ticker that ticks whatever the options say.
TickerRuns_Always == TRUE

\* handleLifecycle: the ticker is time.NewTicker(PingFrequency) if
\* PingFrequency > 0, else a ticker stopped as soon as it is made.
TickerRuns == opts.PingFrequency > 0

\* handleLifecycle, `case <-ticker.C` with PingFrequency > 0: usr.ping(ctx)
\* sends a ping and waits for the pong under context.WithTimeout(PingTimeout).
Lifecycle_Tick(c) ==
    /\ lpc[c] = "select"
    /\ TickerRuns
    /\ lpc' = [lpc EXCEPT ![c] = "ping"]
    /\ UNCHANGED <<partyVars, handlerVars, ppc, cancelled, msg, retL, retP, conn, caller, hist>>

\* Whether the pong of c's peer can reach connection.Ping: the peer answers
\* and the session is intact, handleIncoming is in a read (the library reads
\* pongs only inside a read), and the contexts Ping waits on are not done.
PongArrives(c) ==
    /\ conn[c].peer = "open"
    /\ conn[c].closes = 0
    /\ ppc[c] = "read"
    /\ ~cancelled[c]
    /\ opts.PingTimeout > 0

\* usr.ping returns nil; the loop of handleLifecycle goes round.
Lifecycle_Pong(c) ==
    /\ lpc[c] = "ping"
    /\ PongArrives(c)
    /\ lpc' = [lpc EXCEPT ![c] = "select"]
    /\ UNCHANGED <<partyVars, handlerVars, ppc, cancelled, msg, retL, retP, conn, caller, hist>>

\* Whether connection.Ping gives up: no pong can come any more (the peer does
\* not answer, the session is closed, handleIncoming has stopped reading),
\* the pong is not read in time because handleIncoming is held in
\* limiter.Wait or in its send on the incoming channel, or a context Ping
\* waits on is done.
NoPong(c) ==
    \/ conn[c].peer # "open"
    \/ conn[c].closes > 0
    \/ ppc[c] \in {"report", "done"}
    \/ ppc[c] \in {"wait", "deliver"}
    \/ cancelled[c]
    \/ opts.PingTimeout = 0

\* usr.ping returns an error, the timeout among them:
\* usr.close("Disconnected.") and handleLifecycle returns the error.
Lifecycle_PingFail(c) ==
    /\ lpc[c] = "ping"
    /\ NoPong(c)
    /\ conn' = CloseConn(conn, c)
    /\ retL' = [retL EXCEPT ![c] = "ping"]
    /\ lpc' = [lpc EXCEPT ![c] = "report"]
    /\ UNCHANGED <<partyVars, handlerVars, ppc, cancelled, msg, retP, caller, hist>>

\* A pump that reads without asking the limiter.
Gate_Skip == "read"

\* handleIncoming, `limiter.Wait(ctx)` before each read: with no RateLimiter
\* configured the limiter is a fresh rate.Inf one, which never makes the pump
\* wait; the configured one does.
Gate == IF opts.RateLimiter = "nil" THEN "read" ELSE "wait"

\* handleIncoming, top of the loop: `select { case <-ctx.Done(): ... default: }`
\* and, with no RateLimiter configured, limiter.Wait(ctx) on a rate.Inf
\* limiter, which never blocks.
Pump_Check(c) ==
    /\ ppc[c] = "check"
    /\ IF cancelled[c]
       THEN /\ conn' = CloseConn(conn, c)
            /\ retP' = [retP EXCEPT ![c] = "ctx"]
            /\ ppc' = [ppc EXCEPT ![c] = "report"]
       ELSE /\ ppc' = [ppc EXCEPT ![c] = Gate]
            /\ UNCHANGED <<conn, retP>>
    /\ UNCHANGED <<partyVars, handlerVars, lpc, cancelled, msg, retL, caller, hist>>

\* limiter.Wait(ctx) on the configured limiter returns nil: a token of the
\* limiter, which all users of the party share through party.opts, is taken.
Pump_Wait(c) ==
    /\ ppc[c] = "wait"
    /\ ~cancelled[c]
    /\ limiter.tokens > 0
    /\ limiter' = [limiter EXCEPT !.tokens = @ - 1, !.granted[c] = @ + 1]
    /\ ppc' = [ppc EXCEPT ![c] = "read"]
    /\ UNCHANGED <<lsn, opts, channels, app, connectedUsers, mut, handlerVars, lpc, cancelled,
                   msg, retL, retP, conn, caller, hist>>

\* A wait that fails with an error of the limiter's own.
WaitErr_Distinct == "rate"

\* What limiter.Wait(ctx) returns when ctx is cancelled: ctx.Err(), the value
\* the `case <-ctx.Done()` branches return as well.
WaitErr == "ctx"

\* limiter.Wait(ctx) returns the context's error: usr.close(timeout) and
\* handleIncoming returns it as it is.
Pump_WaitFail(c) ==
    /\ ppc[c] = "wait"
    /\ cancelled[c]
    /\ conn' = CloseConn(conn, c)
    /\ retP' = [retP EXCEPT ![c] = WaitErr]
    /\ hist' = [hist EXCEPT !.waitErr[c] = WaitErr]
    /\ ppc' = [ppc EXCEPT ![c] = "report"]
    /\ UNCHANGED <<partyVars, handlerVars, lpc, cancelled, msg, retL, caller>>

\* A decoding that believes the frame about who sent it.
Decode_Trusting(frame, id, c) ==
    [UserID |-> IF frame.from # NoID THEN frame.from ELSE id, n |-> frame.n, by |-> c]

\* usr.read: `im := &Incoming{UserID: usr.ID, ...}` and wsjson.Read into it.
\* Incoming.UserID is tagged `json:"-"`: whatever the frame says about its
\* sender is not decoded.  (by: the connection that read it, for the record.)
Decode(frame, id, c) == [UserID |-> id, n |-> frame.n, by |-> c]

\* usr.read(ctx) returns the next frame of the peer as a message.  With an
\* incoming channel the pump goes on to hand it over; with none the message
\* is dropped and the loop goes round.
Pump_Read(c) ==
    /\ ppc[c] = "read"
    /\ conn[c].unread # <<>> /\ conn[c].closes = 0 /\ ~cancelled[c]
    /\ conn' = [conn EXCEPT ![c].unread = Tail(@)]
    /\ hist' = [hist EXCEPT !.read[c] = Append(@, Head(conn[c].unread))]
    /\ IF incoming[c] # NoChan
       THEN /\ msg' = [msg EXCEPT ![c] = <<Decode(Head(conn[c].unread), uid[c], c)>>]
            /\ ppc' = [ppc EXCEPT ![c] = "deliver"]
       ELSE /\ msg' = msg
            /\ ppc' = [ppc EXCEPT ![c] = "check"]
    /\ UNCHANGED <<partyVars, handlerVars, lpc, cancelled, retL, retP, caller>>

\* A send on the incoming channel that loses the message.
Send_Drop(q, m) == q

\* A value sent on the incoming channel and received by the application.
Send(q, m) == Append(q, m)

\* handleIncoming, `usr.incoming <- *message`: the application receives the
\* message; the loop goes round.  For the record: whether the leave
\* notification of the user had been delivered before.
Pump_Deliver(c) ==
    /\ ppc[c] = "deliver"
    /\ app.draining
    /\ app' = [app EXCEPT !.inbox = Send(@, msg[c][1])]
    /\ hist' = [hist EXCEPT !.via = Append(@, incoming[c]),
                            !.afterLeave = IF c \in hist.leaveNotes THEN @ \cup {c} ELSE @]
    /\ msg' = [msg EXCEPT ![c] = <<>>]
    /\ ppc' = [ppc EXCEPT ![c] = "check"]
    /\ UNCHANGED <<lsn, opts, limiter, channels, connectedUsers, mut, handlerVars, lpc,
                   cancelled, retL, retP, conn, caller>>

\* usr.read(ctx) fails: the peer left and nothing it sent is left to read, the
\* session was closed, or the context was cancelled; handleIncoming closes
\* and returns the error.
Pump_ReadFail(c) ==
    /\ ppc[c] = "read"
    /\ \/ conn[c].peer = "closed" /\ conn[c].unread = <<>>
       \/ conn[c].closes > 0
       \/ cancelled[c]
    /\ conn' = CloseConn(conn, c)
    /\ retP' = [retP EXCEPT ![c] = "read"]
    /\ ppc' = [ppc EXCEPT ![c] = "report"]
    /\ UNCHANGED <<partyVars, handlerVars, lpc, cancelled, msg, retL, caller, hist>>

\* The goroutine of listen: hand handleIncoming's result to closed, then cancel.
Pump_Report(c) ==
    /\ ppc[c] = "report"
    /\ Report(c, retP[c])
    /\ ppc' = [ppc EXCEPT ![c] = "done"]
    /\ retP' = [retP EXCEPT ![c] = "none"]
    /\ UNCHANGED <<partyVars, uid, incoming, lpc, retL, msg, conn, caller>>

\* ------------------------------------------------------------------ peer

\* The client closes its end of the session.
PeerClose(c) ==
    /\ conn[c].peer \in {"open", "stalled"}
    /\ conn' = [conn EXCEPT ![c].peer = "closed"]
    /\ UNCHANGED <<partyVars, handlerVars, userVars, caller, hist>>

\* The client sends its next frame; the frame may say anything about who
\* sent it.
PeerSend(c, from) ==
    /\ conn[c].peer \in {"open", "stalled"}
    /\ conn[c].sent < MaxFrames
    /\ conn' = [conn EXCEPT ![c].sent = @ + 1,
                            ![c].unread = Append(@, [n |-> conn[c].sent + 1, from |-> from])]
    /\ UNCHANGED <<partyVars, handlerVars, userVars, caller, hist>>

\* Time passes: the limiter gains a token, up to its burst.
LimiterRefill ==
    /\ limiter.tokens < Burst
    /\ limiter' = [limiter EXCEPT !.tokens = @ + 1]
    /\ UNCHANGED <<lsn, opts, channels, app, connectedUsers, mut, handlerVars, userVars, conn,
                   caller, hist>>

\* The peer stops reading from its socket without closing it.
PeerStall(c) ==
    /\ conn[c].peer = "open"
    /\ conn' = [conn EXCEPT ![c].peer = "stalled"]
    /\ UNCHANGED <<partyVars, handlerVars, userVars, caller, hist>>

\* ------------------------------------------------------------------ callers
\* Caller k is a goroutine that makes one call; its message is numbered k.

\* Callers are numbered in the order in which their calls begin; calls may
\* overlap.
NextCaller(k) ==
    /\ caller[k].pc = "idle"
    /\ IF k = 1 THEN TRUE ELSE caller[k - 1].pc # "idle"

\* The call has returned: its locals are gone.
DoneCaller == [IdleCaller EXCEPT !.pc = "done"]

\* user.write as Broadcast and Message call it: the message is handed to the
\* user's write path; the frame reaches the transport in a later step.  For
\* the record: whether ServeHTTP had already received the user's terminal
\* error.
Submit(k, c) ==
    [hist EXCEPT !.submitted[c] = Append(@, k),
                 !.late = IF herr[c] # "none" THEN @ \cup {c} ELSE @]

\* A write that loses the frame.
WriteFrame_Drop(cn, k, c, ok) == cn

\* A write that puts the frame on every open session.
WriteFrame_All(cn, k, c, ok) ==
    [x \in Conns |-> IF ok /\ cn[x].peer # "none"
                     THEN [cn[x] EXCEPT !.wire = Append(@, k)] ELSE cn[x]]

\* wsjson.Write in user.write: the frame is written, or the write fails.
WriteFrame(cn, k, c, ok) ==
    IF ok THEN [cn EXCEPT ![c].wire = Append(@, k)] ELSE cn

\* Party.Broadcast: RLock, and the range over connectedUsers begins.
Broadcast_RLock(k) ==
    /\ NextCaller(k)
    /\ CanRLock
    /\ mut' = [mut EXCEPT !.readers = @ \cup {k}]
    /\ caller' = [caller EXCEPT ![k] =
                    [@ EXCEPT !.pc = "bIter", !.op = "Broadcast", !.todo = Members,
                              !.map = connectedUsers]]
    /\ UNCHANGED <<lsn, opts, limiter, channels, app, connectedUsers, handlerVars, userVars, conn, hist>>

\* Party.Broadcast: the next user of the range, usr.write(ctx, message) is called.
Broadcast_Write(k, id) ==
    /\ caller[k].pc = "bIter"
    /\ id \in caller[k].todo
    /\ LET c == connectedUsers[id] IN
         /\ caller' = [caller EXCEPT ![k] =
                         [@ EXCEPT !.pc = "bWrite", !.cur = c, !.todo = @ \ {id},
                                   !.done[c] = @ + 1]]
         /\ hist' = Submit(k, c)
    /\ UNCHANGED <<partyVars, handlerVars, userVars, conn>>

\* A range that a failed write ends.
Range_StopOnError(todo, ok) == IF ok THEN todo ELSE {}

\* What is left of Broadcast's range once usr.write has returned: the call
\* is a statement, its result is discarded.
Range(todo, ok) == todo

\* Party.Broadcast: usr.write returns; its error is ignored.
Broadcast_WriteReturn(k) ==
    /\ caller[k].pc = "bWrite"
    /\ \E ok \in WriteOutcomes(caller[k].cur) :
         /\ conn' = WriteFrame(conn, k, caller[k].cur, ok)
         /\ caller' = [caller EXCEPT ![k] =
                         [@ EXCEPT !.pc = "bIter", !.cur = NoUser,
                                   !.todo = Range(@, ok)]]
    /\ UNCHANGED <<partyVars, handlerVars, userVars, hist>>

\* Party.Broadcast: the range is over; the deferred RUnlock, return nil.
Broadcast_Return(k) ==
    /\ caller[k].pc = "bIter"
    /\ caller[k].todo = {}
    /\ mut' = [mut EXCEPT !.readers = @ \ {k}]
    /\ caller' = [caller EXCEPT ![k] = DoneCaller]
    /\ UNCHANGED <<lsn, opts, limiter, channels, app, connectedUsers, handlerVars, userVars, conn, hist>>

\* Party.Message: RLock and the lookup; a hit calls usr.write(ctx, message),
\* a miss is about to return ErrNoSuchUser.
Message_RLock(k, id) ==
    /\ NextCaller(k)
    /\ CanRLock
    /\ mut' = [mut EXCEPT !.readers = @ \cup {k}]
    /\ IF Lookup(id) # NoUser
       THEN LET c == Lookup(id) IN
              /\ caller' = [caller EXCEPT ![k] =
                              [@ EXCEPT !.pc = "mWrite", !.op = "Message",
                                        !.target = id, !.cur = c,
                                        !.map = connectedUsers, !.done[c] = @ + 1]]
              /\ hist' = Submit(k, c)
       ELSE /\ caller' = [caller EXCEPT ![k] =
                            [@ EXCEPT !.pc = "mRet", !.op = "Message", !.target = id,
                                      !.map = connectedUsers,
                                      !.result = "ErrNoSuchUser"]]
            /\ hist' = hist
    /\ UNCHANGED <<lsn, opts, limiter, channels, app, connectedUsers, handlerVars, userVars, conn>>

\* Party.Message: usr.write returns its error or nil.
Message_WriteReturn(k) ==
    /\ caller[k].pc = "mWrite"
    /\ \E ok \in WriteOutcomes(caller[k].cur) :
         /\ conn' = WriteFrame(conn, k, caller[k].cur, ok)
         /\ caller' = [caller EXCEPT ![k] =
                         [@ EXCEPT !.pc = "mRet",
                                   !.result = IF ok THEN "nil" ELSE "writeErr"]]
    /\ UNCHANGED <<partyVars, handlerVars, userVars, hist>>

\* Party.Message: the deferred RUnlock; the call returns.
Message_Return(k) ==
    /\ caller[k].pc = "mRet"
    /\ mut' = [mut EXCEPT !.readers = @ \ {k}]
    /\ caller' = [caller EXCEPT ![k] = DoneCaller]
    /\ UNCHANGED <<lsn, opts, limiter, channels, app, connectedUsers, handlerVars, userVars, conn, hist>>

\* Party.End: Lock, and the range over connectedUsers begins.
End_Lock(k) ==
    /\ NextCaller(k)
    /\ CanLock
    /\ mut' = [mut EXCEPT !.writer = k]
    /\ caller' = [caller EXCEPT ![k] =
                    [@ EXCEPT !.pc = "eIter", !.op = "End", !.todo = Members,
                              !.map = connectedUsers]]
    /\ UNCHANGED <<lsn, opts, limiter, channels, app, connectedUsers, handlerVars, userVars, conn, hist>>

\* Party.End: user.close(message) and delete(party.connectedUsers, user.ID)
\* for the next user of the range.
End_Close(k, id) ==
    /\ caller[k].pc = "eIter"
    /\ id \in caller[k].todo
    /\ LET c == connectedUsers[id] IN
         /\ conn' = CloseConn(conn, c)
         /\ connectedUsers' = Delete(connectedUsers, id)
         /\ caller' = [caller EXCEPT ![k] =
                         [@ EXCEPT !.todo = @ \ {id}, !.done[c] = @ + 1]]
         /\ hist' = [hist EXCEPT !.ended = @ + 1, !.removedBy[c] = "End"]
    /\ UNCHANGED <<lsn, opts, limiter, channels, app, mut, handlerVars, userVars>>

\* Party.End: the range is over; the deferred Unlock.
End_Return(k) ==
    /\ caller[k].pc = "eIter"
    /\ caller[k].todo = {}
    /\ mut' = [mut EXCEPT !.writer = NoCaller]
    /\ caller' = [caller EXCEPT ![k] = DoneCaller]
    /\ UNCHANGED <<lsn, opts, limiter, channels, app, connectedUsers, handlerVars, userVars, conn, hist>>

\* The slices a range over the keys of m can fill: every key once, in any
\* order (Go does not fix the order of a range over a map).
UserIDs_All(m) == {q \in [1..NumIDs -> IDs] : \A i, j \in 1..NumIDs : q[i] = q[j] => i = j}

\* GetConnectedUserIDs: `userIDs := make([]string, len(party.connectedUsers))`
\* and `for id := range party.connectedUsers { userIDs[i] = id; i++ }`.
UserIDs(m) ==
    LET keys == {id \in IDs : m[id] # NoUser}
    IN  {q \in [1..Cardinality(keys) -> keys] :
            \A i, j \in 1..Cardinality(keys) : q[i] = q[j] => i = j}

\* Party.UserExists(userID): RLock, `_, ok := party.connectedUsers[userID]`.
UserExists_RLock(k, id) ==
    /\ NextCaller(k)
    /\ CanRLock
    /\ mut' = [mut EXCEPT !.readers = @ \cup {k}]
    /\ caller' = [caller EXCEPT ![k] =
                    [@ EXCEPT !.pc = "aRet", !.op = "UserExists", !.target = id,
                              !.exists = Lookup(id) # NoUser]]
    /\ UNCHANGED <<lsn, opts, limiter, channels, app, connectedUsers, handlerVars, userVars, conn, hist>>

\* Party.GetConnectedUserIDs: RLock, the slice is filled from the range.
GetConnectedUserIDs_RLock(k) ==
    /\ NextCaller(k)
    /\ CanRLock
    /\ mut' = [mut EXCEPT !.readers = @ \cup {k}]
    /\ \E q \in UserIDs(connectedUsers) :
         caller' = [caller EXCEPT ![k] =
                      [@ EXCEPT !.pc = "aRet", !.op = "GetConnectedUserIDs", !.ids = q]]
    /\ UNCHANGED <<lsn, opts, limiter, channels, app, connectedUsers, handlerVars, userVars, conn, hist>>

\* Party.GetConnectedUserCount: RLock, `len(party.connectedUsers)`.
GetConnectedUserCount_RLock(k) ==
    /\ NextCaller(k)
    /\ CanRLock
    /\ mut' = [mut EXCEPT !.readers = @ \cup {k}]
    /\ caller' = [caller EXCEPT ![k] =
                    [@ EXCEPT !.pc = "aRet", !.op = "GetConnectedUserCount",
                              !.count = GetConnectedUserCount]]
    /\ UNCHANGED <<lsn, opts, limiter, channels, app, connectedUsers, handlerVars, userVars, conn, hist>>

\* The deferred RUnlock of an accessor; the call returns.
Accessor_Return(k) ==
    /\ caller[k].pc = "aRet"
    /\ mut' = [mut EXCEPT !.readers = @ \ {k}]
    /\ caller' = [caller EXCEPT ![k] = DoneCaller]
    /\ UNCHANGED <<lsn, opts, limiter, channels, app, connectedUsers, handlerVars, userVars, conn, hist>>

\* ------------------------------------------------------------------ Next

Next ==
    \/ \E c \in Conns : ServeHTTP_Accept(c)
    \/ \E c \in Conns : ServeHTTP_AddUser(c)
    \/ \E c \in Conns : ServeHTTP_Park(c)
    \/ \E c \in Conns : ServeHTTP_RemoveUser(c)
    \/ \E c \in Conns : Lifecycle_CtxDone(c)
    \/ \E c \in Conns : Lifecycle_Report(c)
    \/ \E c \in Conns : Pump_Check(c)
    \/ \E c \in Conns : Pump_ReadFail(c)
    \/ \E c \in Conns : Pump_Report(c)
    \/ \E c \in Conns : PeerClose(c)
    \/ \E c \in Conns : PeerStall(c)
    \/ \E k \in Callers : Broadcast_RLock(k)
    \/ \E k \in Callers, id \in IDs : Broadcast_Write(k, id)
    \/ \E k \in Callers : Broadcast_WriteReturn(k)
    \/ \E k \in Callers : Broadcast_Return(k)
    \/ \E k \in Callers, id \in IDs : Message_RLock(k, id)
    \/ \E k \in Callers : Message_WriteReturn(k)
    \/ \E k \in Callers : Message_Return(k)
    \/ \E k \in Callers : End_Lock(k)
    \/ \E k \in Callers, id \in IDs : End_Close(k, id)
    \/ \E k \in Callers : End_Return(k)

Spec == Init /\ [][Next]_vars

\* ------------------------------------------------------------------ keepalive
\* The party with Options{PingFrequency: 1s, PingTimeout: 1s}; nobody calls
\* Broadcast, Message or End.

InitKeepalive ==
    /\ opts = [PingFrequency |-> 1, PingTimeout |-> 1, RateLimiter |-> "nil",
               UserJoinHandler |-> FALSE, UserLeaveHandler |-> FALSE]
    /\ limiter = NoLimiter
    /\ channels = NoChannels
    /\ InitCommon

NextKeepalive ==
    \/ \E c \in Conns : ServeHTTP_Accept(c)
    \/ \E c \in Conns : ServeHTTP_AddUser(c)
    \/ \E c \in Conns : ServeHTTP_Park(c)
    \/ \E c \in Conns : ServeHTTP_RemoveUser(c)
    \/ \E c \in Conns : Lifecycle_CtxDone(c)
    \/ \E c \in Conns : Lifecycle_Tick(c)
    \/ \E c \in Conns : Lifecycle_Pong(c)
    \/ \E c \in Conns : Lifecycle_PingFail(c)
    \/ \E c \in Conns : Lifecycle_Report(c)
    \/ \E c \in Conns : Pump_Check(c)
    \/ \E c \in Conns : Pump_ReadFail(c)
    \/ \E c \in Conns : Pump_Report(c)
    \/ \E c \in Conns : PeerClose(c)
    \/ \E c \in Conns : PeerStall(c)

SpecKeepalive == InitKeepalive /\ [][NextKeepalive]_vars

\* The same, with pings on (1s) or off (PingFrequency 0).
InitLifecycle ==
    /\ \E f \in 0..1 :
         opts = [PingFrequency |-> f, PingTimeout |-> f, RateLimiter |-> "nil",
                 UserJoinHandler |-> FALSE, UserLeaveHandler |-> FALSE]
    /\ limiter = NoLimiter
    /\ channels = NoChannels
    /\ InitCommon

SpecLifecycle == InitLifecycle /\ [][NextKeepalive]_vars

\* ------------------------------------------------------------------ notifications
\* The party with join and leave notifications: either both channels
\* registered (RegisterOnUserJoined, RegisterOnUserLeft) or, in the revision
\* with callbacks, both handlers set.  The only calls are calls of End.

InitNotify ==
    /\ \E handlers \in BOOLEAN :
         /\ opts = [PingFrequency |-> 0, PingTimeout |-> 0, RateLimiter |-> "nil",
                    UserJoinHandler |-> handlers, UserLeaveHandler |-> handlers]
         /\ channels = [userJoinChannel |-> ~handlers, userLeaveChannel |-> ~handlers,
                        incoming |-> NoChan]
    /\ limiter = NoLimiter
    /\ InitCommon

NextNotify ==
    \/ \E c \in Conns : ServeHTTP_Accept(c)
    \/ \E c \in Conns : ServeHTTP_AddUser(c)
    \/ \E c \in Conns : ServeHTTP_JoinSent(c)
    \/ \E c \in Conns : ServeHTTP_JoinHandler(c)
    \/ \E c \in Conns : ServeHTTP_Park(c)
    \/ \E c \in Conns : ServeHTTP_RemoveUser(c)
    \/ \E c \in Conns : ServeHTTP_LeaveSent(c)
    \/ \E c \in Conns : ServeHTTP_LeaveHandler(c)
    \/ AppStops
    \/ \E c \in Conns : Lifecycle_CtxDone(c)
    \/ \E c \in Conns : Lifecycle_Report(c)
    \/ \E c \in Conns : Pump_Check(c)
    \/ \E c \in Conns : Pump_ReadFail(c)
    \/ \E c \in Conns : Pump_Report(c)
    \/ \E c \in Conns : PeerClose(c)
    \/ \E k \in Callers : End_Lock(k)
    \/ \E k \in Callers, id \in IDs : End_Close(k, id)
    \/ \E k \in Callers : End_Return(k)

SpecNotify == InitNotify /\ [][NextNotify]_vars

\* ------------------------------------------------------------------ accessors
\* The party of the tests with callers of UserExists, GetConnectedUserIDs,
\* GetConnectedUserCount and End.

NextAccess ==
    \/ \E c \in Conns : ServeHTTP_Accept(c)
    \/ \E c \in Conns : ServeHTTP_AddUser(c)
    \/ \E c \in Conns : ServeHTTP_Park(c)
    \/ \E c \in Conns : ServeHTTP_RemoveUser(c)
    \/ \E c \in Conns : Lifecycle_CtxDone(c)
    \/ \E c \in Conns : Lifecycle_Report(c)
    \/ \E c \in Conns : Pump_Check(c)
    \/ \E c \in Conns : Pump_ReadFail(c)
    \/ \E c \in Conns : Pump_Report(c)
    \/ \E c \in Conns : PeerClose(c)
    \/ \E k \in Callers, id \in IDs : UserExists_RLock(k, id)
    \/ \E k \in Callers : GetConnectedUserIDs_RLock(k)
    \/ \E k \in Callers : GetConnectedUserCount_RLock(k)
    \/ \E k \in Callers : Accessor_Return(k)
    \/ \E k \in Callers : End_Lock(k)
    \/ \E k \in Callers, id \in IDs : End_Close(k, id)
    \/ \E k \in Callers : End_Return(k)

SpecAccess == Init /\ [][NextAccess]_vars

\* ------------------------------------------------------------------ registration
\* The party of the tests with peers that send frames and an application
\* that calls RegisterIncoming at any time, before or after users join.

NextRegister ==
    \/ \E c \in Conns : ServeHTTP_Accept(c)
    \/ \E c \in Conns : ServeHTTP_AddUser(c)
    \/ \E c \in Conns : ServeHTTP_Park(c)
    \/ \E c \in Conns : ServeHTTP_RemoveUser(c)
    \/ \E c \in Conns : Lifecycle_CtxDone(c)
    \/ \E c \in Conns : Lifecycle_Report(c)
    \/ \E c \in Conns : Pump_Check(c)
    \/ \E c \in Conns : Pump_Read(c)
    \/ \E c \in Conns : Pump_Deliver(c)
    \/ \E c \in Conns : Pump_ReadFail(c)
    \/ \E c \in Conns : Pump_Report(c)
    \/ \E c \in Conns : \E from \in IDs \ {uid[c]} : PeerSend(c, from)
    \/ \E c \in Conns : PeerClose(c)
    \/ \E ch \in 1..NumChans : RegisterIncoming(ch)

SpecRegister == Init /\ [][NextRegister]_vars

\* ------------------------------------------------------------------ consumer
\* The party with pings on and an incoming channel registered before anyone
\* joins; the application may stop receiving from the channel.

InitDrain ==
    /\ opts = [PingFrequency |-> 1, PingTimeout |-> 1, RateLimiter |-> "nil",
               UserJoinHandler |-> FALSE, UserLeaveHandler |-> FALSE]
    /\ limiter = NoLimiter
    /\ channels = [NoChannels EXCEPT !.incoming = 1]
    /\ InitCommon

NextDrain ==
    \/ \E c \in Conns : ServeHTTP_Accept(c)
    \/ \E c \in Conns : ServeHTTP_AddUser(c)
    \/ \E c \in Conns : ServeHTTP_Park(c)
    \/ \E c \in Conns : ServeHTTP_RemoveUser(c)
    \/ \E c \in Conns : Lifecycle_CtxDone(c)
    \/ \E c \in Conns : Lifecycle_Tick(c)
    \/ \E c \in Conns : Lifecycle_Pong(c)
    \/ \E c \in Conns : Lifecycle_PingFail(c)
    \/ \E c \in Conns : Lifecycle_Report(c)
    \/ \E c \in Conns : Pump_Check(c)
    \/ \E c \in Conns : Pump_Read(c)
    \/ \E c \in Conns : Pump_Deliver(c)
    \/ \E c \in Conns : Pump_ReadFail(c)
    \/ \E c \in Conns : Pump_Report(c)
    \/ \E c \in Conns : \E from \in IDs \ {uid[c]} : PeerSend(c, from)
    \/ \E c \in Conns : PeerClose(c)
    \/ AppStopsDraining

SpecDrain == InitDrain /\ [][NextDrain]_vars

\* ------------------------------------------------------------------ inbound
\* The party with peers that send frames: the incoming channel is registered
\* (RegisterIncoming) or not, Options.RateLimiter is set or nil, pings are
\* on.  Nobody calls Broadcast, Message or End.  Every frame claims to come
\* from an identity that is not its sender's.

InitInbound ==
    /\ \E gated \in BOOLEAN :
         /\ opts = [PingFrequency |-> 1, PingTimeout |-> 1,
                    RateLimiter |-> IF gated THEN "set" ELSE "nil",
                    UserJoinHandler |-> FALSE, UserLeaveHandler |-> FALSE]
         /\ channels = [NoChannels EXCEPT !.incoming = IF gated THEN 1 ELSE NoChan]
    /\ limiter = [tokens |-> Burst, granted |-> [c \in Conns |-> 0]]
    /\ InitCommon

NextInbound ==
    \/ \E c \in Conns : ServeHTTP_Accept(c)
    \/ \E c \in Conns : ServeHTTP_AddUser(c)
    \/ \E c \in Conns : ServeHTTP_Park(c)
    \/ \E c \in Conns : ServeHTTP_RemoveUser(c)
    \/ \E c \in Conns : Lifecycle_CtxDone(c)
    \/ \E c \in Conns : Lifecycle_Tick(c)
    \/ \E c \in Conns : Lifecycle_Pong(c)
    \/ \E c \in Conns : Lifecycle_PingFail(c)
    \/ \E c \in Conns : Lifecycle_Report(c)
    \/ \E c \in Conns : Pump_Check(c)
    \/ \E c \in Conns : Pump_Wait(c)
    \/ \E c \in Conns : Pump_WaitFail(c)
    \/ \E c \in Conns : Pump_Read(c)
    \/ \E c \in Conns : Pump_Deliver(c)
    \/ \E c \in Conns : Pump_ReadFail(c)
    \/ \E c \in Conns : Pump_Report(c)
    \/ \E c \in Conns : \E from \in IDs \ {uid[c]} : PeerSend(c, from)
    \/ \E c \in Conns : PeerClose(c)
    \/ LimiterRefill

SpecInbound == InitInbound /\ [][NextInbound]_vars

\* ------------------------------------------------------------------ traffic
\* The party with the join, leave and incoming channels registered and pings
\* on, PingTimeout set (1s) or left at its zero value; no rate limiter.
\* Peers send frames and go away; nobody calls Broadcast, Message or End.

\* How many frames a peer sends.
TrafficFrames == 1

InitTraffic ==
    /\ \E t \in 0..1 :
         opts = [PingFrequency |-> 1, PingTimeout |-> t, RateLimiter |-> "nil",
                 UserJoinHandler |-> FALSE, UserLeaveHandler |-> FALSE]
    /\ channels = [userJoinChannel |-> TRUE, userLeaveChannel |-> TRUE, incoming |-> 1]
    /\ limiter = NoLimiter
    /\ InitCommon

NextTraffic ==
    \/ \E c \in Conns : ServeHTTP_Accept(c)
    \/ \E c \in Conns : ServeHTTP_AddUser(c)
    \/ \E c \in Conns : ServeHTTP_JoinSent(c)
    \/ \E c \in Conns : ServeHTTP_Park(c)
    \/ \E c \in Conns : ServeHTTP_RemoveUser(c)
    \/ \E c \in Conns : ServeHTTP_LeaveSent(c)
    \/ \E c \in Conns : Lifecycle_CtxDone(c)
    \/ \E c \in Conns : Lifecycle_Tick(c)
    \/ \E c \in Conns : Lifecycle_Pong(c)
    \/ \E c \in Conns : Lifecycle_PingFail(c)
    \/ \E c \in Conns : Lifecycle_Report(c)
    \/ \E c \in Conns : Pump_Check(c)
    \/ \E c \in Conns : Pump_Read(c)
    \/ \E c \in Conns : Pump_Deliver(c)
    \/ \E c \in Conns : Pump_ReadFail(c)
    \/ \E c \in Conns : Pump_Report(c)
    \/ \E c \in Conns : \E from \in IDs \ {uid[c]} :
            conn[c].sent < TrafficFrames /\ PeerSend(c, from)
    \/ \E c \in Conns : PeerClose(c)

SpecTraffic == InitTraffic /\ [][NextTraffic]_vars

\* ------------------------------------------------------------------ Listen
\* The earlier revisions of the party: one goroutine runs Party.Listen and
\* owns connectedUsers; requests and the application talk to it over
\* unbuffered channels.  Nobody sends on the stop channel, and peers send no
\* frames.

InitListen ==
    /\ opts = [PingFrequency |-> 1, PingTimeout |-> 1, RateLimiter |-> "nil",
               UserJoinHandler |-> FALSE, UserLeaveHandler |-> FALSE]
    /\ limiter = NoLimiter
    /\ channels = NoChannels
    /\ connectedUsers = [id \in IDs |-> NoUser]
    /\ mut = [writer |-> NoCaller, readers |-> {}]
    /\ hpc = [c \in Conns |-> "idle"]
    /\ uid = [c \in Conns |-> NoID]
    /\ incoming = [c \in Conns |-> NoChan]
    /\ herr = [c \in Conns |-> "none"]
    /\ lpc = [c \in Conns |-> "off"]
    /\ ppc = [c \in Conns |-> "off"]
    /\ cancelled = [c \in Conns |-> FALSE]
    /\ retL = [c \in Conns |-> "none"]
    /\ retP = [c \in Conns |-> "none"]
    /\ msg = [c \in Conns |-> <<>>]
    /\ conn = [c \in Conns |-> [peer |-> "none", closes |-> 0, status |-> "none",
                                 wire |-> <<>>,
                                 sent |-> 0, unread |-> <<>>]]
    /\ caller = [k \in Callers |-> IdleCaller]
    /\ app = [receiving |-> TRUE, draining |-> TRUE, inbox |-> <<>>]
    /\ hist = [joined |-> 0, left |-> 0, ended |-> 0, errors |-> {},
               removedBy |-> [c \in Conns |-> "none"],
               submitted |-> [c \in Conns |-> <<>>],
               leaving |-> [c \in Conns |-> NoUser],
               joinNotes |-> {}, leaveNotes |-> {},
               sawJoin |-> [c \in Conns |-> "none"],
               sawLeave |-> [c \in Conns |-> "none"],
               read |-> [c \in Conns |-> <<>>],
               removeErr |-> [c \in Conns |-> "none"],
               via |-> <<>>,
               waitErr |-> [c \in Conns |-> "none"],
               late |-> {}, afterLeave |-> {}]
    /\ \E rev \in {"SendMessage", "MessageUser"} : lsn = [NoListen EXCEPT !.rev = rev]

listenRest == <<opts, limiter, channels, app, connectedUsers, mut, handlerVars, userVars,
                conn, caller, hist>>

\* The request's context is cancelled when its ServeHTTP returns.
CtxDone(c) == lsn.proc[c] = "done"

\* ServeHTTP up to its send on party.addUser: the upgrade succeeded and
\* newUser made the user with its three unbuffered channels.
Listen_Upgrade(c) ==
    /\ lsn.proc[c] = "idle"
    /\ lsn' = [lsn EXCEPT !.proc[c] = "add", !.ws[c] = "open"]
    /\ UNCHANGED listenRest

\* `party.addUser <- user` meets Listen's `case user := <-party.addUser`;
\* ServeHTTP goes on into processUser, which starts the user's two loops.
Listen_AddUser(c) ==
    /\ lsn.pc = "select"
    /\ lsn.proc[c] = "add"
    /\ lsn' = [lsn EXCEPT !.users = @ \cup {c}, !.proc[c] = "proc",
                          !.inc[c] = "top", !.out[c] = "select"]
    /\ UNCHANGED listenRest

\* `party.removeUser <- user` (deleteUser in options.go) meets Listen's
\* case; processUser returns the error and ServeHTTP returns.
Listen_RemoveUser(c) ==
    /\ lsn.pc = "select"
    /\ lsn.proc[c] = "del"
    /\ lsn' = [lsn EXCEPT !.users = @ \ {c}, !.proc[c] = "done"]
    /\ UNCHANGED listenRest

\* Listen takes a broadcast: it goes over connectedUsers.
Listen_Broadcast(k) ==
    /\ lsn.pc = "select"
    /\ lsn.sender[k] = "idle"
    /\ lsn' = [lsn EXCEPT !.sender[k] = "sent",
                          !.pc = IF lsn.users = {} THEN "select" ELSE "range",
                          !.todo = lsn.users]
    /\ UNCHANGED listenRest

\* One user of the range: `select { case user.toUser <- message: default: }`
\* hands the message over if the user's listenOutgoing is at its select, and
\* drops it otherwise.
Listen_Range(c) ==
    /\ lsn.pc = "range"
    /\ c \in lsn.todo
    /\ lsn' = [lsn EXCEPT !.todo = @ \ {c},
                          !.pc = IF lsn.todo = {c} THEN "select" ELSE "range",
                          !.out[c] = IF @ = "select" THEN "write" ELSE @]
    /\ UNCHANGED listenRest

\* party.go: Listen takes a message for one user from SendMessage.  A miss
\* is skipped; a hit goes to the plain send `user.toUser <- message`.
Listen_SendMessage(k, dest) ==
    /\ lsn.rev = "SendMessage"
    /\ lsn.pc = "select"
    /\ lsn.sender[k] = "idle"
    /\ lsn' = [lsn EXCEPT !.sender[k] = "sent",
                          !.pc = IF dest \in lsn.users THEN "toUser" ELSE "select",
                          !.target = IF dest \in lsn.users THEN dest ELSE NoUser]
    /\ UNCHANGED listenRest

\* party.go: the plain send completes when the user's listenOutgoing
\* receives, which it does only at its select.
Listen_ToUser ==
    /\ lsn.pc = "toUser"
    /\ lsn.out[lsn.target] = "select"
    /\ lsn' = [lsn EXCEPT !.pc = "select", !.target = NoUser,
                          !.out[lsn.target] = "write"]
    /\ UNCHANGED listenRest

\* options.go: Listen takes a message from MessageUser.  After a miss it
\* prints and goes on to `select { case user.toUser <- message: default: }`
\* with user nil: evaluating user.toUser panics.  After a hit the send is
\* dropped unless the user's listenOutgoing is at its select.
Listen_MessageUser(k, dest) ==
    /\ lsn.rev = "MessageUser"
    /\ lsn.pc = "select"
    /\ lsn.sender[k] = "idle"
    /\ lsn' = [lsn EXCEPT !.sender[k] = "sent",
                          !.pc = IF dest \in lsn.users THEN "select" ELSE "panic",
                          !.out[dest] = IF dest \in lsn.users /\ @ = "select"
                                        THEN "write" ELSE @]
    /\ UNCHANGED listenRest

\* listenOutgoing writes the message it received: back to the select, or on
\* a failure Close and the send `user.closed <- err`.
Outgoing_Write(c) ==
    /\ lsn.out[c] = "write"
    /\ lsn' = IF lsn.ws[c] = "open"
              THEN [lsn EXCEPT !.out[c] = "select"]
              ELSE [lsn EXCEPT !.out[c] = "closed"]
    /\ UNCHANGED listenRest

\* listenOutgoing's ticker fires and the ping fails.
Outgoing_PingFail(c) ==
    /\ lsn.out[c] = "select"
    /\ ~CtxDone(c)
    /\ lsn.ws[c] = "closed"
    /\ lsn' = [lsn EXCEPT !.out[c] = "closed"]
    /\ UNCHANGED listenRest

\* listenOutgoing's `case <-ctx.Done()`.
Outgoing_CtxDone(c) ==
    /\ lsn.out[c] = "select"
    /\ CtxDone(c)
    /\ lsn' = [lsn EXCEPT !.out[c] = "done"]
    /\ UNCHANGED listenRest

\* listenIncoming's loop head: return when the context is done, else wait
\* for the limiter and read.
Incoming_Top(c) ==
    /\ lsn.inc[c] = "top"
    /\ lsn' = [lsn EXCEPT !.inc[c] = IF CtxDone(c) THEN "done" ELSE "read"]
    /\ UNCHANGED listenRest

\* readMessage fails (the connection is closed or the context is done):
\* Close and the send `user.closed <- err`.
Incoming_ReadFail(c) ==
    /\ lsn.inc[c] = "read"
    /\ lsn.ws[c] = "closed" \/ CtxDone(c)
    /\ lsn' = [lsn EXCEPT !.inc[c] = "closed", !.ws[c] = "closed"]
    /\ UNCHANGED listenRest

\* processUser's `case err := <-user.closed`: it receives from a loop that
\* is at its send, then goes to its own send on party.removeUser.
ProcessUser_Closed(c, loop) ==
    /\ lsn.proc[c] = "proc"
    /\ lsn[loop][c] = "closed"
    /\ lsn' = [lsn EXCEPT ![loop][c] = "done", !.proc[c] = "del"]
    /\ UNCHANGED listenRest

\* The peer goes away.
Listen_PeerGone(c) ==
    /\ lsn.ws[c] = "open"
    /\ lsn' = [lsn EXCEPT !.ws[c] = "closed"]
    /\ UNCHANGED listenRest

NextListen ==
    \/ \E c \in Conns : Listen_Upgrade(c)
    \/ \E c \in Conns : Listen_AddUser(c)
    \/ \E c \in Conns : Listen_RemoveUser(c)
    \/ \E k \in Callers : Listen_Broadcast(k)
    \/ \E c \in Conns : Listen_Range(c)
    \/ \E k \in Callers, dest \in Conns : Listen_SendMessage(k, dest)
    \/ Listen_ToUser
    \/ \E k \in Callers, dest \in Conns : Listen_MessageUser(k, dest)
    \/ \E c \in Conns : Outgoing_Write(c)
    \/ \E c \in Conns : Outgoing_PingFail(c)
    \/ \E c \in Conns : Outgoing_CtxDone(c)
    \/ \E c \in Conns : Incoming_Top(c)
    \/ \E c \in Conns : Incoming_ReadFail(c)
    \/ \E c \in Conns, loop \in {"inc", "out"} : ProcessUser_Closed(c, loop)
    \/ \E c \in Conns : Listen_PeerGone(c)

SpecListen == InitListen /\ [][NextListen]_vars

\* ------------------------------------------------------------------ properties

\* How many copies of message k are on a transport, and where the first is.
Copies(w, k) == Cardinality({i \in DOMAIN w : w[i] = k})
Position(w, k) == CHOOSE i \in DOMAIN w : w[i] = k /\ \A j \in 1..(i - 1) : w[j] # k
Connected(c) == conn[c].peer \in {"open", "stalled"} /\ conn[c].closes = 0
\* The users a call found in the map when it took the lock.
Found(k) == {caller[k].map[id] : id \in {i \in IDs : caller[k].map[i] # NoUser}}
BroadcastDone(k) == caller[k].pc = "bIter" /\ caller[k].todo = {}
EndDone(k) == caller[k].pc = "eIter" /\ caller[k].todo = {}

C3_BroadcastCompleteness ==
    \A k \in Callers : BroadcastDone(k) =>
        /\ \A c \in Conns : Copies(conn[c].wire, k) <= 1
        /\ \A c \in Found(k) : Connected(c) => Copies(conn[c].wire, k) = 1

\* A Broadcast over two registered users, both still connected, is about to
\* return.
C3_Witness ==
    \E k \in Callers :
        /\ BroadcastDone(k)
        /\ Cardinality(Found(k)) = 2
        /\ \A c \in Found(k) : Connected(c) /\ Copies(conn[c].wire, k) = 1

\* C4: a Message call hands its message to the write path of the user
\* registered under its target and to no other, and its message is on no
\* transport but that user's.
C4_UnicastCorrectness ==
    \A k \in Callers : caller[k].op = "Message" =>
        \A c \in Conns :
            (caller[k].done[c] > 0 \/ Copies(conn[c].wire, k) > 0)
                => c = caller[k].map[caller[k].target]

\* A Message to one of two registered users has written its frame and is
\* about to return nil.
C4_Witness ==
    \E k \in Callers :
        /\ caller[k].pc = "mRet" /\ caller[k].result = "nil"
        /\ Cardinality(Found(k)) = 2
        /\ Copies(conn[caller[k].map[caller[k].target]].wire, k) = 1

\* C5: a Message whose target has no entry is about to return ErrNoSuchUser
\* straight from the lookup: the map is as the call found it, the message was
\* handed to no user and is on no transport.
C5_UnknownTarget ==
    \A k \in Callers :
        (caller[k].pc = "mRet" /\ caller[k].map[caller[k].target] = NoUser) =>
            /\ caller[k].result = "ErrNoSuchUser"
            /\ connectedUsers = caller[k].map
            /\ \A c \in Conns : caller[k].done[c] = 0 /\ Copies(conn[c].wire, k) = 0

\* A Message to an id without an entry, while another user is registered, is
\* about to return ErrNoSuchUser.
C5_Witness ==
    \E k \in Callers :
        /\ caller[k].pc = "mRet" /\ caller[k].result = "ErrNoSuchUser"
        /\ caller[k].map[caller[k].target] = NoUser
        /\ Members # {}

\* C7: when End has finished its range and is about to unlock, it has called
\* close once on every user it found in the map and on no other, those
\* sessions are closed, and the map is empty.
C7_EndClosesAll ==
    \A k \in Callers : EndDone(k) =>
        /\ Members = {}
        /\ \A c \in Conns : caller[k].done[c] = IF c \in Found(k) THEN 1 ELSE 0
        /\ \A c \in Found(k) : conn[c].closes >= 1

\* End over two registered users is about to unlock.
C7_Witness ==
    \E k \in Callers : EndDone(k) /\ Cardinality(Found(k)) = 2

\* Both loops of c's user have returned and made their reports.
LoopsOver(c) == lpc[c] = "done" /\ ppc[c] = "done"
\* c's user is in the map and its ServeHTTP has no report in hand.
Stranded(c) == uid[c] # NoID /\ connectedUsers[uid[c]] = c /\ hpc[c] # "got"

\* C2: once the peer has closed the session of a registered user and both
\* loops of that user are over, the user is out of the map or its ServeHTTP
\* holds the report that makes it call removeUser.
C2_LeaveOnDisconnect ==
    \A c \in Conns : (conn[c].peer = "closed" /\ LoopsOver(c)) => ~Stranded(c)

\* C6: on every transport the messages stand in the order in which they were
\* handed to that user's write.
C6_OutboundOrdering ==
    \A c \in Conns : \A i, j \in DOMAIN conn[c].wire :
        i < j => Position(hist.submitted[c], conn[c].wire[i])
                   < Position(hist.submitted[c], conn[c].wire[j])

\* C8: a caller inside usr.write can always come out of it, whatever the
\* peer does, and Message never returns the error of a write.
C8_CallerNeverBlocksNorFails ==
    \A k \in Callers :
        /\ caller[k].pc \in {"bWrite", "mWrite"} => WriteOutcomes(caller[k].cur) # {}
        /\ caller[k].pc = "mRet" => caller[k].result # "writeErr"

\* C9: with keepalive on, once a probe of a registered user whose peer does
\* not answer has failed and both loops of that user are over, the user is out of the map or its
\* ServeHTTP holds the report that makes it call removeUser.
C9_KeepaliveTimeout ==
    \A c \in Conns :
        (opts.PingFrequency > 0 /\ conn[c].peer = "stalled" /\ retL[c] = "ping"
            /\ LoopsOver(c)) => ~Stranded(c)

\* C10: no user is taken out of the map by the ServeHTTP of another
\* connection.
C10_FaultContainment ==
    \A c \in Conns : hist.removedBy[c] # "other"

\* The users (by connection) that are in the map.
Registered == {connectedUsers[id] : id \in Members}
\* No user was ever made for the request of connection c.
NoActor(c) ==
    /\ uid[c] = NoID /\ lpc[c] = "off" /\ ppc[c] = "off"
    /\ c \notin Registered /\ c \notin hist.joinNotes
\* The step that ends the request of connection c with the given report.
Rejects(c, err) == <<c, err>> \notin hist.errors /\ <<c, err>> \in hist'.errors

\* C11: a request ends without a session exactly when its upgrade failure was
\* reported to ErrorHandler; no user is ever made for it, and the step that
\* rejects it leaves the map and the count of joins as they were.
C11_HandshakeFailure ==
    /\ [](\A c \in Conns :
            /\ (hpc[c] = "done" /\ conn[c].peer = "none") <=> <<c, "upgrade">> \in hist.errors
            /\ <<c, "upgrade">> \in hist.errors => NoActor(c))
    /\ [][\A c \in Conns : Rejects(c, "upgrade") =>
            connectedUsers' = connectedUsers /\ hist'.joined = hist.joined]_vars

\* The upgrade of the second request has failed while the first user is
\* registered.
C11_Witness ==
    <<2, "upgrade">> \in hist.errors /\ Registered = {1} /\ GetConnectedUserCount = 1

\* C12: a request whose session was accepted ends without a user exactly when
\* the UIDGenerator's error was reported to ErrorHandler; its session was
\* closed once, with StatusInternalError, no user and no loops were made for
\* it, and the step that aborts it leaves the map and the count of joins as
\* they were.
C12_IdentityFailure ==
    /\ [](\A c \in Conns :
            /\ (hpc[c] = "done" /\ conn[c].peer # "none" /\ uid[c] = NoID)
                   <=> <<c, "uid">> \in hist.errors
            /\ <<c, "uid">> \in hist.errors =>
                   /\ NoActor(c)
                   /\ conn[c].closes = 1 /\ conn[c].status = "StatusInternalError")
    /\ [][\A c \in Conns : Rejects(c, "uid") =>
            connectedUsers' = connectedUsers /\ hist'.joined = hist.joined]_vars

\* The UIDGenerator has failed for the second request while the first user
\* is registered.
C12_Witness ==
    <<2, "uid">> \in hist.errors /\ Registered = {1} /\ conn[2].closes = 1

\* The step that delivers the join notification of connection c's user.
JoinDelivered(c) == c \notin hist.joinNotes /\ c \in hist'.joinNotes

C14_LeaveNotificationOrdering ==
    /\ \A v \in hist.leaveNotes : v \notin Registered
    /\ \A c \in Conns :
          /\ hpc[c] = "leaveSend" => hist.leaving[c] \notin Registered
          /\ hist.sawLeave[c] # "exists"

\* The leave of one user was delivered on the leave channel while another
\* user is registered.
C14_Witness ==
    /\ channels.userLeaveChannel
    /\ \E v \in hist.leaveNotes : Registered # {} /\ v \notin Registered

\* C15: a ServeHTTP that is at the send on the join (leave) channel can
\* always get past it, whether or not the application receives.
C15_SinkNeverStalls ==
    \A c \in Conns :
        /\ (channels.userJoinChannel /\ hpc[c] = "joinSend")
              => ENABLED ServeHTTP_JoinSent(c)
        /\ (channels.userLeaveChannel /\ hpc[c] = "leaveSend")
              => ENABLED ServeHTTP_LeaveSent(c)

RECURSIVE FromConn(_, _)
FromConn(q, c) ==
    IF q = <<>> THEN <<>>
    ELSE IF Head(q).by = c THEN <<Head(q)>> \o FromConn(Tail(q), c)
    ELSE FromConn(Tail(q), c)

Delivered(c) == Len(FromConn(app.inbox, c))

\* C17: with a RateLimiter configured, the pump of a connection waits on the
\* limiter exactly once before each read of a frame (the tokens it was granted
\* are the frames it read, plus the one it holds while in or after a read that
\* has not returned a frame), so the frames it delivered to the consumer never
\* exceed the tokens it was granted.
C17_RateLimiting ==
    \A c \in Conns :
        opts.RateLimiter # "nil" =>
            /\ Len(hist.read[c]) <= limiter.granted[c]
            /\ limiter.granted[c] <= Len(hist.read[c]) + 1
            /\ ppc[c] = "read" => limiter.granted[c] = Len(hist.read[c]) + 1
            /\ ppc[c] \in {"check", "wait", "deliver"} =>
                   limiter.granted[c] = Len(hist.read[c])
            /\ Delivered(c) <= limiter.granted[c]

\* A connection has delivered all the frames its peer sent, each after a
\* token of the configured limiter, and waits for the next token.
C17_Witness ==
    \E c \in Conns :
        /\ opts.RateLimiter # "nil"
        /\ Delivered(c) = MaxFrames
        /\ limiter.granted[c] = MaxFrames
        /\ ppc[c] = "wait"

\* C18: rate gating is per connection: a connection that has used none of
\* its rate budget is not kept waiting at the limiter because another
\* connection of the party has used the limiter's tokens.
C18_PerConnectionGating ==
    \A c \in Conns :
        (ppc[c] = "wait" /\ ~cancelled[c] /\ limiter.granted[c] = 0) =>
            ENABLED Pump_Wait(c)

\* The frame numbers of a sequence of messages.
Numbers(q) == [i \in 1..Len(q) |-> q[i].n]

\* C19: for a user made with an incoming channel, the frames its pump
\* has read are, in the order read, the messages of that connection in the
\* consumer's inbox followed by the one the pump is sending, each once; and
\* the pump's send goes through whenever the consumer drains the channel.
C19_InboundDelivery ==
    \A c \in Conns :
        incoming[c] # NoChan =>
            /\ Numbers(FromConn(app.inbox, c)) \o Numbers(msg[c]) = Numbers(hist.read[c])
            /\ (ppc[c] = "deliver") = (msg[c] # <<>>)
            /\ (ppc[c] = "deliver" /\ app.draining) => ENABLED Pump_Deliver(c)

\* The consumer has received every frame of one connection and a frame of
\* another in between.
C19_Witness ==
    /\ channels.incoming # NoChan
    /\ Len(app.inbox) > MaxFrames
    /\ \E c \in Conns :
         /\ Delivered(c) = MaxFrames
         /\ app.inbox[1].by = c
         /\ app.inbox[2].by # c

\* C20: every message delivered to the consumer, or about to be, carries as
\* UserID the identity of the user whose pump read the frame, whatever
\* identity the frame claimed.
C20_SourceIdentity ==
    /\ \A i \in DOMAIN app.inbox : app.inbox[i].UserID = uid[app.inbox[i].by]
    /\ \A c \in Conns : msg[c] # <<>> => msg[c][1].UserID = uid[c]

\* The consumer holds messages of two users, every frame of which claimed
\* another user's identity.
C20_Witness ==
    /\ \A c \in Conns : Delivered(c) > 0
    /\ \A i \in DOMAIN app.inbox :
         hist.read[app.inbox[i].by][app.inbox[i].n].from # app.inbox[i].UserID

\* C21: when an accessor is about to return, with its read lock still held,
\* UserExists(id) is true exactly if id is in connectedUsers,
\* GetConnectedUserIDs holds exactly the ids of connectedUsers, each once, and
\* as many as GetConnectedUserCount, and GetConnectedUserCount is the number
\* of entries.
C21_AccessorAccuracy ==
    \A k \in Callers :
        caller[k].pc = "aRet" =>
            /\ caller[k].op = "UserExists" =>
                   caller[k].exists = (caller[k].target \in Members)
            /\ caller[k].op = "GetConnectedUserIDs" =>
                   /\ {caller[k].ids[i] : i \in DOMAIN caller[k].ids} = Members
                   /\ Len(caller[k].ids) = GetConnectedUserCount
                   /\ \A i, j \in DOMAIN caller[k].ids :
                         caller[k].ids[i] = caller[k].ids[j] => i = j
            /\ caller[k].op = "GetConnectedUserCount" =>
                   caller[k].count = Cardinality(Members)

\* With every id registered, one caller is returning the ids and another a
\* positive answer of UserExists.
C21_Witness ==
    /\ Members = IDs
    /\ \E k, j \in Callers :
         /\ caller[k].pc = "aRet" /\ caller[k].op = "GetConnectedUserIDs"
         /\ Len(caller[k].ids) = NumIDs
         /\ caller[j].pc = "aRet" /\ caller[j].op = "UserExists" /\ caller[j].exists

\* The step in which the handler of c calls removeUser for an id that has no
\* entry.
DoubleLeave(c) == hpc[c] = "got" /\ hpc'[c] # "got" /\ connectedUsers[uid[c]] = NoUser

\* C22: removeUser(id) for an id that is not in the map returns
\* ErrNoSuchUser, leaves the map and the count of leaves as they were and
\* sends no leave notification: the handler is done at once, and a handler
\* that got ErrNoSuchUser is never at the leave send.
C22_DoubleLeave ==
    /\ [](\A c \in Conns : hist.removeErr[c] = "ErrNoSuchUser" => hpc[c] = "done")
    /\ [][\A c \in Conns :
            DoubleLeave(c) =>
                /\ hist'.removeErr[c] = "ErrNoSuchUser"
                /\ connectedUsers' = connectedUsers
                /\ hist'.left = hist.left
                /\ hist'.leaveNotes = hist.leaveNotes
                /\ hpc'[c] = "done"]_vars

\* With a leave sink registered, End removed a user and the user's handler
\* then called removeUser.
C22_Witness ==
    \E c \in Conns :
        /\ LeaveSink
        /\ hist.removedBy[c] = "End"
        /\ hist.removeErr[c] = "ErrNoSuchUser"

\* C23: when an id is issued again after its holder left the map, the
\* removeUser(id) of the earlier holder's handler removes no user but its own
\* and no leave notification goes out for a user whose own handler has not
\* removed it.
C23_IdentityReuse ==
    \A c \in Conns :
        /\ hist.leaving[c] \in {NoUser, c}
        /\ c \in hist.leaveNotes => hist.leaving[c] = c

\* C24: with PingFrequency = 0 handleLifecycle never pings and never returns
\* a ping error; it leaves its select only when the user's context is
\* cancelled, closing the session and returning the context's error.
C24_KeepaliveDisabled ==
    /\ [](opts.PingFrequency = 0 =>
            \A c \in Conns : lpc[c] # "ping" /\ retL[c] \in {"none", "ctx"})
    /\ [][opts.PingFrequency = 0 =>
            \A c \in Conns :
                (lpc[c] = "select" /\ lpc'[c] # "select") =>
                    cancelled[c] /\ retL'[c] = "ctx"]_vars

\* Pings are off; a peer has stopped answering and its user's lifecycle loop
\* goes on waiting, while that of another user has ended on cancellation.
C24_Witness ==
    /\ opts.PingFrequency = 0
    /\ \E c, d \in Conns :
         /\ conn[c].peer = "stalled" /\ lpc[c] = "select" /\ conn[c].closes = 0
         /\ lpc[d] = "done" /\ retL[d] = "ctx"

\* C25: once RegisterIncoming(ch) has returned, a frame that a user's pump
\* reads goes to ch, whether the user joined before the call or after it:
\* a pump that has a frame to read holds the channel the party holds.
C25_RegisterIncomingReplaces ==
    \A c \in Conns :
        (channels.incoming # NoChan /\ ENABLED Pump_Read(c)) =>
            incoming[c] = channels.incoming

\* C26: a user to which a write has just failed is on its way out of the
\* party: it is never left in the map with both its loops over and a handler
\* that will not remove it.
C26_WriteFailureFatal ==
    \A k \in Callers :
        (caller[k].pc = "mRet" /\ caller[k].result = "writeErr") =>
            ~(LoopsOver(caller[k].cur) /\ Stranded(caller[k].cur))

\* C27: a goroutine that waits in a write to a peer that does not read holds
\* no registry lock.
C27_NoLockAcrossSuspension ==
    \A k \in Callers :
        (caller[k].pc \in {"bWrite", "mWrite"} /\ WriteOutcomes(caller[k].cur) = {}) =>
            k \notin mut.readers

\* The goroutines that are inside a write to the transport of c.
Writers(c) == {k \in Callers : caller[k].pc \in {"bWrite", "mWrite"} /\ caller[k].cur = c}

\* C28: at most one goroutine at a time is writing to the transport of a
\* user.
C28_SingleWriter ==
    \A c \in Conns : Cardinality(Writers(c)) <= 1

\* C29: when both loops of a user have ended, its ServeHTTP has received a
\* terminal error on closed.
C29_OneTerminalReport ==
    \A c \in Conns : LoopsOver(c) => hpc[c] \in {"got", "leaveSend", "done"}

\* C30: once the context of a user is cancelled no goroutine of the user
\* stays blocked: a pump that is handing a message to the consumer can go on,
\* whether or not the consumer still receives.
C30_CancellationUnblocks ==
    \A c \in Conns :
        (cancelled[c] /\ ppc[c] = "deliver") => ENABLED Pump_Deliver(c)

\* The errors a user's loops return on a shutdown: the context's error, a
\* failed read, a failed ping.
Shutdown == {"ctx", "read", "ping"}

\* The step in which limiter.Wait returns for a cancelled context.
WaitCancelled(c) == ppc[c] = "wait" /\ ppc'[c] # "wait" /\ cancelled[c]

\* C31: when limiter.Wait returns because the user's context is cancelled,
\* the pump reads no frame and delivers nothing, neither in that step nor
\* later, and what it returns, and what the error sink may get from it, is
\* the context's error of any shutdown.
C31_QuietWaitCancel ==
    /\ [](\A c \in Conns :
             /\ hist.waitErr[c] # "none" =>
                    /\ hist.waitErr[c] = "ctx"
                    /\ ppc[c] \in {"report", "done"}
                    /\ msg[c] = <<>>
                    /\ Len(hist.read[c]) = limiter.granted[c]
             /\ \A e \in {"rate", "wait"} : <<c, e>> \notin hist.errors)
    /\ [][\A c \in Conns :
            WaitCancelled(c) =>
                /\ ppc'[c] = "report"
                /\ retP'[c] \in Shutdown
                /\ hist'.read = hist.read
                /\ app' = app
                /\ msg' = msg]_vars

\* The ping of a user failed while its pump waited for a token; the wait
\* returned the context's error and ServeHTTP got it from the pump.
C31_Witness ==
    \E c \in Conns :
        /\ hist.waitErr[c] = "ctx"
        /\ retL[c] = "ping"
        /\ herr[c] = "ctx"
        /\ <<c, "ctx">> \in hist.errors

\* C32: no Broadcast or Message calls the write of a user whose terminal
\* error ServeHTTP has received.
C32_NoUseAfterClosed ==
    hist.late = {}

\* C33: over the life of a user, close is called on its session at most once.
C33_NoDoubleClose ==
    \A c \in Conns : conn[c].closes <= 1

\* C34: in the channel-driven revision Listen is never stuck: when it is at
\* its send to one user, that user's listenOutgoing can still receive.
\* (Violated: the loop has stopped after a failed write, the user is still
\* in the map, and the send has no default case.)
C34_ListenNeverBlocked ==
    lsn.pc = "toUser" => lsn.out[lsn.target] \in {"select", "write"}

\* C35: Listen survives a message for a user that is not connected.
\* (Violated in options.go: the miss is printed and user.toUser is then
\* evaluated on the nil user.)
C35_MissNeverPanics == lsn.pc # "panic"

\* C36: when Broadcast has finished its range and is about to return, it
\* has called write once on every user it found in the map, whether or not
\* the writes before succeeded, and it carries no error to return.
C36_BroadcastBestEffort ==
    \A k \in Callers : BroadcastDone(k) =>
        /\ \A c \in Found(k) : caller[k].done[c] = 1
        /\ caller[k].result = "none"

\* A Broadcast over two registered users is about to return; its write to
\* one failed, its write to the other put the frame on the transport.
C36_Witness ==
    \E k \in Callers :
        /\ BroadcastDone(k)
        /\ caller[k].op = "Broadcast"
        /\ \E c, d \in Found(k) :
             /\ c # d
             /\ caller[k].done[c] = 1 /\ Copies(conn[c].wire, k) = 0
             /\ caller[k].done[d] = 1 /\ Copies(conn[d].wire, k) = 1

\* No id has been issued to two connections.
UniqueIDs == \A c, d \in Conns : (c # d /\ uid[c] # NoID) => uid[c] # uid[d]

\* The users whose leave notification has been delivered or is being sent.
LeaveNotified == hist.leaveNotes \cup {hist.leaving[c] : c \in {d \in Conns : hpc[d] = "leaveSend"}}

\* C37: while ids are unique, a user that End deleted from the map gets no
\* leave notification: its handler's removeUser deletes nothing and never
\* reaches the leave send; the users with a leave notification are exactly
\* those whose own handler removed them.
C37_EndIsSilent ==
    UniqueIDs =>
        /\ \A c \in Conns : hist.removedBy[c] = "End" =>
              /\ c \notin LeaveNotified
              /\ hist.leaving[c] = NoUser
              /\ hpc[c] # "leaveSend"
        /\ LeaveNotified = {c \in Conns : hist.removedBy[c] = "self"}

\* Two users with different ids joined and both join notifications went
\* out; End removed one, whose handler has since returned from removeUser;
\* the other left by itself and its leave notification is the only one.
C37_Witness ==
    /\ UniqueIDs
    /\ Cardinality(hist.joinNotes) = 2
    /\ \E c, d \in Conns :
         /\ hist.removedBy[c] = "End" /\ hist.removeErr[c] = "ErrNoSuchUser" /\ hpc[c] = "done"
         /\ hist.removedBy[d] = "self" /\ hpc[d] = "done"
         /\ hist.leaveNotes = {d}

\* C38: every Incoming the consumer has received was read by a connection
\* whose join notification had been delivered, and carries that
\* connection's id.
C38_JoinPrecedesTraffic ==
    \A i \in DOMAIN app.inbox :
        /\ app.inbox[i].by \in hist.joinNotes
        /\ app.inbox[i].UserID = uid[app.inbox[i].by]

\* With the join channel registered the consumer has received a message of
\* each of two users, after the join notifications of both.
C38_Witness ==
    /\ channels.userJoinChannel
    /\ hist.joinNotes = Conns
    /\ \A c \in Conns : \E i \in DOMAIN app.inbox : app.inbox[i].by = c

\* C39: the consumer receives no Incoming of a connection whose leave
\* notification has been delivered.  (Violated: the pump's send on the
\* incoming channel does not watch the context; it completes after the
\* lifecycle loop's report led to removeUser and the leave notification.)
C39_NoTrafficAfterLeave == hist.afterLeave = {}

\* The lifecycle loop has just closed the session of c on a failed ping, and
\* it was the first to close it: the peer is there, the context is live and
\* the pump has not returned.
Killed(c) ==
    /\ lpc[c] = "report" /\ retL[c] = "ping"
    /\ conn[c].peer = "open" /\ conn[c].closes = 1
    /\ ~cancelled[c]
    /\ ppc[c] \notin {"report", "done"}

\* C40: the lifecycle loop's ping never fails on a peer that is there and
\* answers, whose session is open and whose context is live.  (Violated:
\* with PingTimeout 0 the context of every ping is done at once, and a pong
\* is read only while handleIncoming is in a read.)
C40_KeepaliveSparesHealthy == \A c \in Conns : ~Killed(c)

====
